---- MODULE Spec2Model ----
(***************************************************************************)
(* A model of timon (src/timon.py): an on-screen clock that watches the    *)
(* difference between the wall clock and the monotonic clock and raises a  *)
(* full-screen warning when that difference steps by more than a           *)
(* threshold between two consecutive checks.                               *)
(*                                                                         *)
(* Three specifications share the module:                                  *)
(*   Spec       TimeMonitor, its callback MainWindow.show_time_jump and    *)
(*              the warning windows, driven by the two clocks and the user *)
(*   SpecFormat format_timedelta applied to bounded timedelta values       *)
(*   SpecTimer  the QTimer built by q_delay                                *)
(*                                                                         *)
(* Time is counted in whole units (seconds for the clocks): the two clock  *)
(* reads of get_time_status are adjacent statements and their gap is below *)
(* the model's resolution, so a sample reads both clocks at one instant.   *)
(* Non-ASCII literals of the source are transliterated (the module's       *)
(* strings are ASCII): see UnitDays .. MsgMid.                             *)
(***************************************************************************)
EXTENDS Integers, Sequences, FiniteSets, TLC

VARIABLES
    \* ---- environment: the two clocks
    wall,            \* time.time()
    mono,            \* time.monotonic()
    \* ---- TimeMonitor / MainWindow
    pc,              \* "start" before TimeMonitor(...) has run, then "running"
    max_seconds,     \* TimeMonitor._max_seconds
    last_status,     \* TimeMonitor._last_status
    warning_window,  \* MainWindow._warning_window (0 is None)
    nwin,            \* number of WarningWindow objects created so far
    shown,           \* the WarningWindow objects alive and on screen
    report,          \* the warning the last check displayed (NoReport if none)
    \* ---- history of the run (read by the properties only)
    checks,          \* number of monitor() calls so far
    fired,           \* the last monitor() call invoked its callback
    raised,          \* ... and that callback raised
    step,            \* net wall-clock step since the previous sample
    elapsed,         \* monotonic time elapsed since the previous sample
    lastStep,        \* step as it was when the last check sampled
    lastElapsed,     \* elapsed as it was when the last check sampled
    quiet,           \* every check so far saw |step| <= max_seconds
    anyFired,        \* some check so far invoked the callback
    \* ---- format_timedelta (SpecFormat)
    td,              \* the timedelta handed to format_timedelta
    result,          \* what format_timedelta returned for it
    \* ---- q_delay (SpecTimer)
    t_repeat,        \* repeat_millis, captured by repeat_wrapper
    t_slots,         \* the slots connected to timer.timeout, in connection order
    t_single,        \* timer.isSingleShot()
    t_active,        \* timer.isActive()
    t_interval,      \* timer.interval()
    t_remaining,     \* time left until the next timeout
    expiries,        \* number of timeouts so far
    calls,           \* number of action() invocations so far
    lastCalls        \* number of action() invocations during the last timeout

monitor_vars == <<pc, max_seconds, last_status, warning_window, nwin, shown, report,
                  checks, fired, raised, lastStep, lastElapsed, quiet, anyFired>>
clock_vars   == <<wall, mono, step, elapsed>>
format_vars  == <<td, result>>
timer_vars   == <<t_repeat, t_slots, t_single, t_active, t_interval, t_remaining,
                  expiries, calls, lastCalls>>
vars == <<monitor_vars, clock_vars, format_vars, timer_vars>>

-----------------------------------------------------------------------------
(* Bounds of the model                                                     *)

MaxWarn    == 1   \* warn_seconds ranges over -1 .. MaxWarn
MaxMono    == 3   \* the monotonic clock runs from 0 to MaxMono
MaxElapse  == 2   \* the most time that passes in one step of the clocks
MaxJump    == 2   \* the largest single wall-clock step
MaxSkew    == 2   \* the wall clock stays within MaxSkew of where it started
MaxChecks  == 2   \* number of monitor() calls explored
MaxDays    == 10  \* format_timedelta: days range over -1 .. MaxDays
MaxUnit    == 4   \* ... hours, minutes, seconds over 0 .. MaxUnit and the top value
MaxDelay   == 4   \* q_delay: delay_millis ranges over 0 .. MaxDelay
MaxRepeat  == 4   \* ... repeat_millis over -1 .. MaxRepeat
MaxExpiries == 6  \* number of timeouts explored

WarnSeconds == -1 .. MaxWarn
InitOffset  == MaxSkew + 1     \* wall - mono at start: the clocks' epochs differ

Abs(x) == IF x < 0 THEN -x ELSE x

-----------------------------------------------------------------------------
(* Strings                                                                 *)

UnitDays    == "tian"       \* line 252
UnitHours   == "xiaoshi"    \* line 253
UnitMinutes == "fenzhong"   \* line 254
UnitSeconds == "miao"       \* lines 249, 255
MsgHead     == "guoqu "                                  \* line 39
MsgMid      == " nei, xitong shijian bianhua dadao "     \* line 39
NoResult    == "<none>"

Digit(d) == CASE d = 0 -> "0" [] d = 1 -> "1" [] d = 2 -> "2" [] d = 3 -> "3"
              [] d = 4 -> "4" [] d = 5 -> "5" [] d = 6 -> "6" [] d = 7 -> "7"
              [] d = 8 -> "8" [] d = 9 -> "9"

RECURSIVE Decimal(_)
Decimal(n) == IF n < 10 THEN Digit(n) ELSE Decimal(n \div 10) \o Digit(n % 10)

\* '{}'.format(n) for an int
FormatInt(n) == IF n < 0 THEN "-" \o Decimal(-n) ELSE Decimal(n)

-----------------------------------------------------------------------------
(* datetime.timedelta: days, seconds in 0 .. 86399, microseconds           *)

DaySeconds == 24 * 3600

\* timedelta(seconds=s) for a whole number s, normalised as Python does
timedelta(s) == [days |-> s \div DaySeconds, seconds |-> s % DaySeconds,
                 microseconds |-> 0]

format_timedelta_slip(d) ==
    LET days    == d.days
        hours   == d.seconds \div 3600
        minutes == d.seconds \div 60           \* the hours are not taken off
        seconds == d.seconds % 60
    IN  IF days = 0 /\ hours = 0 /\ minutes = 0 /\ seconds = 0
        THEN "0" \o UnitSeconds
        ELSE (IF days > 0 THEN FormatInt(days) \o UnitDays ELSE "")
             \o (IF hours > 0 THEN FormatInt(hours) \o UnitHours ELSE "")
             \o (IF minutes > 0 THEN FormatInt(minutes) \o UnitMinutes ELSE "")
             \o (IF seconds > 0 THEN FormatInt(seconds) \o UnitSeconds ELSE "")

format_timedelta(d) ==
    LET days    == d.days
        hours   == d.seconds \div 3600
        rem1    == d.seconds % 3600
        minutes == rem1 \div 60
        seconds == rem1 % 60
    IN  IF days = 0 /\ hours = 0 /\ minutes = 0 /\ seconds = 0
        THEN "0" \o UnitSeconds
        ELSE (IF days > 0 THEN FormatInt(days) \o UnitDays ELSE "")
             \o (IF hours > 0 THEN FormatInt(hours) \o UnitHours ELSE "")
             \o (IF minutes > 0 THEN FormatInt(minutes) \o UnitMinutes ELSE "")
             \o (IF seconds > 0 THEN FormatInt(seconds) \o UnitSeconds ELSE "")

-----------------------------------------------------------------------------
(* The sampler and the monitor                                             *)

get_time_status(timestamp, monotonic_seconds) ==
    [timestamp |-> timestamp,
     monotonic_seconds |-> monotonic_seconds,
     diff |-> timestamp - monotonic_seconds]

NoStatus == [timestamp |-> 0, monotonic_seconds |-> 0, diff |-> 0]
NoReport == [m_key |-> 0, t_change |-> 0, content |-> ""]

get_time_warning_signed(status, last) ==
    LET m_key    == status.monotonic_seconds - last.monotonic_seconds
        t_change == status.timestamp - last.timestamp        \* abs() left out
    IN  [m_key |-> m_key, t_change |-> t_change,
         content |-> MsgHead \o format_timedelta(timedelta(m_key))
                     \o MsgMid \o format_timedelta(timedelta(t_change))]

get_time_warning_keys(status, last) ==
    LET m_key    == status.monotonic_seconds - last.monotonic_seconds
        t_change == Abs(status.timestamp - last.monotonic_seconds)  \* wrong key
    IN  [m_key |-> m_key, t_change |-> t_change,
         content |-> MsgHead \o format_timedelta(timedelta(m_key))
                     \o MsgMid \o format_timedelta(timedelta(t_change))]

get_time_warning(status, last) ==
    LET m_key    == status.monotonic_seconds - last.monotonic_seconds
        t_change == Abs(status.timestamp - last.timestamp)
    IN  [m_key |-> m_key, t_change |-> t_change,
         content |-> MsgHead \o format_timedelta(timedelta(m_key))
                     \o MsgMid \o format_timedelta(timedelta(t_change))]

\* the test of line 20
time_jumped_forward(status, last, limit) == status.diff - last.diff > limit
time_jumped_or_equal(status, last, limit) == Abs(status.diff - last.diff) >= limit
time_jumped(status, last, limit) == Abs(status.diff - last.diff) > limit

\* the value line 18 stores in _last_status
stored_status_stale(status, last) == last
stored_status(status, last) == status

\* MainWindow.show_time_jump: the new window takes the only reference
\* MainWindow keeps; the window it replaces loses its last reference and is
\* destroyed with it (it has no parent and nothing else refers to it).
show_time_jump(status, last) ==
    /\ nwin' = nwin + 1
    /\ warning_window' = nwin + 1
    /\ shown' = (shown \ {warning_window}) \cup {nwin + 1}
    /\ report' = get_time_warning(status, last)

\* TimeMonitor.__init__, as MainWindow.__init__ calls it (line 69), for any
\* warn_seconds: the constructor does not look at its argument.
TimeMonitor(warn_seconds) ==
    /\ pc = "start"
    /\ pc' = "running"
    /\ max_seconds' = warn_seconds
    /\ last_status' = get_time_status(wall, mono)
    /\ step' = 0
    /\ elapsed' = 0
    /\ UNCHANGED <<wall, mono, warning_window, nwin, shown, report, checks, fired,
                   raised, lastStep, lastElapsed, quiet, anyFired>>
    /\ UNCHANGED <<format_vars, timer_vars>>

\* MainWindow.monitor_time_change -> TimeMonitor.monitor(callback). The
\* callback either completes (show_time_jump) or raises; monitor has stored
\* the new status before it calls it.
monitor_time_change(completes) ==
    /\ pc = "running"
    /\ checks < MaxChecks
    /\ LET status == get_time_status(wall, mono)
           last   == last_status
           jump   == time_jumped(status, last, max_seconds)
       IN  /\ last_status' = stored_status(status, last)
           /\ fired' = jump
           /\ raised' = (jump /\ ~completes)
           /\ anyFired' = (anyFired \/ jump)
           /\ IF jump /\ completes
              THEN show_time_jump(status, last)
              ELSE /\ report' = NoReport
                   /\ UNCHANGED <<nwin, warning_window, shown>>
    /\ checks' = checks + 1
    /\ lastStep' = step
    /\ lastElapsed' = elapsed
    /\ quiet' = (quiet /\ Abs(step) <= max_seconds)
    /\ step' = 0
    /\ elapsed' = 0
    /\ UNCHANGED <<pc, max_seconds, wall, mono>>
    /\ UNCHANGED <<format_vars, timer_vars>>

\* WarningWindow's confirm button: clicked -> self.close
Confirm(w) ==
    /\ w \in shown
    /\ shown' = shown \ {w}
    /\ UNCHANGED <<pc, max_seconds, last_status, warning_window, nwin, report,
                   checks, fired, raised, lastStep, lastElapsed, quiet, anyFired>>
    /\ UNCHANGED <<clock_vars, format_vars, timer_vars>>

-----------------------------------------------------------------------------
(* The environment of the monitor: the two clocks                          *)

\* d units of time pass: both clocks advance by d
Elapse(d) ==
    /\ pc = "running"
    /\ mono + d <= MaxMono
    /\ mono' = mono + d
    /\ wall' = wall + d
    /\ elapsed' = elapsed + d
    /\ UNCHANGED <<step, monitor_vars, format_vars, timer_vars>>

\* the wall clock is set j units forward (j > 0) or back (j < 0): NTP, the
\* user, the hypervisor. time.monotonic() is not affected.
Jump(j) ==
    /\ pc = "running"
    /\ j # 0
    /\ Abs((wall + j) - mono - InitOffset) <= MaxSkew
    /\ wall' = wall + j
    /\ step' = step + j
    /\ UNCHANGED <<mono, elapsed, monitor_vars, format_vars, timer_vars>>

-----------------------------------------------------------------------------
(* Spec: the monitor, its callback and the warning windows                 *)

FormatIdle == td = timedelta(0) /\ result = NoResult
TimerIdle ==
    /\ t_repeat = 0 /\ t_slots = << >> /\ t_single = FALSE /\ t_active = FALSE
    /\ t_interval = 0 /\ t_remaining = 0 /\ expiries = 0 /\ calls = 0 /\ lastCalls = 0
MonitorIdle ==
    /\ wall = InitOffset /\ mono = 0 /\ pc = "start" /\ max_seconds = 0
    /\ last_status = NoStatus /\ warning_window = 0 /\ nwin = 0 /\ shown = {}
    /\ report = NoReport /\ checks = 0 /\ fired = FALSE /\ raised = FALSE
    /\ step = 0 /\ elapsed = 0 /\ lastStep = 0 /\ lastElapsed = 0
    /\ quiet = TRUE /\ anyFired = FALSE

Init == MonitorIdle /\ FormatIdle /\ TimerIdle

Next ==
    \/ \E warn_seconds \in WarnSeconds : TimeMonitor(warn_seconds)
    \/ \E completes \in BOOLEAN : monitor_time_change(completes)
    \/ \E w \in 1 .. MaxChecks + 1 : Confirm(w)
    \/ \E d \in 1 .. MaxElapse : Elapse(d)
    \/ \E j \in -MaxJump .. MaxJump : Jump(j)

Spec == Init /\ [][Next]_vars

-----------------------------------------------------------------------------
(* SpecFormat: format_timedelta on bounded timedelta values                *)

UnitValues(top) == (0 .. MaxUnit) \cup {top}

FormatInputs ==
    { [days |-> d, seconds |-> h * 3600 + m * 60 + s, microseconds |-> u] :
        d \in -1 .. MaxDays, h \in UnitValues(23), m \in UnitValues(59),
        s \in UnitValues(59), u \in {0, 999999} }

Format ==
    /\ result = NoResult
    /\ result' = format_timedelta(td)
    /\ UNCHANGED <<td, monitor_vars, clock_vars, timer_vars>>

InitFormat == MonitorIdle /\ TimerIdle /\ td \in FormatInputs /\ result = NoResult

NextFormat == Format

SpecFormat == InitFormat /\ [][NextFormat]_vars

-----------------------------------------------------------------------------
(* SpecTimer: the QTimer q_delay builds. timeout is a Qt signal: an        *)
(* emission calls, in connection order, the slots connected when it began; *)
(* connecting a callable again adds another connection. A single-shot      *)
(* timer stops before it emits; a repeating one restarts with its interval.*)

\* the state a slot works on
TimerState == [slots |-> t_slots, single |-> t_single, active |-> t_active,
               interval |-> t_interval, remaining |-> t_remaining, calls |-> 0]

\* lines 215-216: one call of action
action_wrapper(t) == [t EXCEPT !.calls = @ + 1]

\* lines 218-223
repeat_wrapper(t) ==
    LET t1 == action_wrapper(t)
    IN  IF t_repeat > 0
        THEN [t1 EXCEPT !.slots = Append(@, "action_wrapper"),
                        !.single = FALSE,
                        !.active = TRUE,
                        !.interval = t_repeat,
                        !.remaining = t_repeat]
        ELSE t1

RunSlot(name, t) ==
    IF name = "repeat_wrapper" THEN repeat_wrapper(t) ELSE action_wrapper(t)

RECURSIVE Emit(_, _)
Emit(slots, t) ==
    IF slots = << >> THEN t ELSE Emit(Tail(slots), RunSlot(Head(slots), t))

\* lines 225-229: the timer as q_delay returns it
q_delay(delay_millis, repeat_millis) ==
    /\ t_repeat = repeat_millis
    /\ t_slots = <<"repeat_wrapper">>
    /\ t_single = TRUE
    /\ t_active = TRUE
    /\ t_interval = delay_millis
    /\ t_remaining = delay_millis
    /\ expiries = 0 /\ calls = 0 /\ lastCalls = 0

\* time passes while the timer runs
TimerTick ==
    /\ t_active
    /\ t_remaining > 0
    /\ t_remaining' = t_remaining - 1
    /\ UNCHANGED <<t_repeat, t_slots, t_single, t_active, t_interval,
                   expiries, calls, lastCalls>>
    /\ UNCHANGED <<monitor_vars, clock_vars, format_vars>>

\* the timer expires and emits timeout
Timeout ==
    /\ t_active
    /\ t_remaining = 0
    /\ expiries < MaxExpiries
    /\ LET t0 == [TimerState EXCEPT !.active = ~t_single, !.remaining = t_interval]
           t1 == Emit(t_slots, t0)
       IN  /\ t_slots' = t1.slots
           /\ t_single' = t1.single
           /\ t_active' = t1.active
           /\ t_interval' = t1.interval
           /\ t_remaining' = t1.remaining
           /\ lastCalls' = t1.calls
           /\ calls' = calls + t1.calls
    /\ expiries' = expiries + 1
    /\ UNCHANGED <<t_repeat, monitor_vars, clock_vars, format_vars>>

InitTimer ==
    /\ MonitorIdle /\ FormatIdle
    /\ \E delay_millis \in 0 .. MaxDelay, repeat_millis \in -1 .. MaxRepeat :
          q_delay(delay_millis, repeat_millis)

NextTimer == TimerTick \/ Timeout

SpecTimer == InitTimer /\ [][NextTimer]_vars

-----------------------------------------------------------------------------
(* Properties                                                              *)

\* C1 (Spec): a check invokes the callback if and only if the wall clock was
\* stepped, relative to the monotonic clock, by more than the threshold since
\* the previous sample; a step of exactly the threshold does not trigger, and
\* a forward and a backward step of one size have the same outcome.
C1_CallbackIffStepExceedsThreshold ==
    checks > 0 => (fired <=> (lastStep > max_seconds \/ -lastStep > max_seconds))

\* a backward step one above a positive threshold was reported
C1_Witness ==
    /\ checks > 0 /\ fired
    /\ max_seconds > 0
    /\ lastStep = -(max_seconds + 1)

\* C2 (Spec): no monitor exists with a zero or negative threshold.
C2_NonPositiveThresholdRejected == pc = "running" => max_seconds > 0

\* C3 (Spec): the monitor always holds the sample of its latest check (or of
\* its construction), whether or not the callback was invoked or raised, and
\* a check that follows a sample with no clock movement in between reports no
\* anomaly.
C3_StateAdvances ==
    /\ pc = "running" =>
          last_status = get_time_status(wall - elapsed - step, mono - elapsed)
    /\ (checks > 0 /\ lastStep = 0 /\ lastElapsed = 0) => ~fired

\* C4 (Spec): while every check so far saw the offset move by at most the
\* threshold since the sample before it, no check has invoked the callback,
\* however far the offset has moved since construction.
C4_SmallStepsNeverFire == (checks > 0 /\ quiet) => ~anyFired

\* two quiet checks after which the offset is further from its value at
\* construction than the threshold
C4_Witness ==
    /\ checks >= 2 /\ quiet /\ ~anyFired
    /\ max_seconds > 0
    /\ Abs(last_status.diff - InitOffset) > max_seconds

\* C5 (Spec): a report carries the monotonic time elapsed since the previous
\* sample and the absolute wall-clock change since the previous sample.
C5_ReportMeasuresSincePreviousCheck ==
    report # NoReport =>
        /\ report.m_key = lastElapsed
        /\ report.t_change = Abs(lastElapsed + lastStep)

\* a report of the second check, whose previous sample is neither the one at
\* construction nor the one just stored
C5_Witness ==
    /\ checks = 2 /\ report # NoReport
    /\ lastElapsed > 0
    /\ last_status.monotonic_seconds > lastElapsed
    /\ report.t_change > 0

\* C6 (Spec), as claimed: in every report of a monitor with a positive
\* threshold the two elapsed values differ.
C6_ElapsedValuesDiffer ==
    (max_seconds > 0 /\ report # NoReport) => report.m_key # report.t_change

\* C6 (Spec), amended: the two elapsed values of a report are equal only when
\* the wall clock was set back by twice the monotonic time elapsed, or when
\* the offset did not move at all, which a monitor reports only under a
\* negative threshold.
C6_EqualOnlyOnMirroredStep ==
    (report # NoReport /\ report.m_key = report.t_change) =>
        \/ lastStep # 0 /\ lastStep = -2 * lastElapsed
        \/ lastStep = 0 /\ max_seconds < 0

\* an anomaly under a positive threshold reported with two equal values
C6_Witness ==
    /\ report # NoReport /\ max_seconds > 0
    /\ report.m_key = report.t_change
    /\ lastElapsed > 0 /\ lastStep = -2 * lastElapsed

\* C8 (Spec): both durations of a report are non-negative, and so are the
\* timedelta values built from them for format_timedelta.
C8_FormatterInputsNonNegative ==
    report # NoReport =>
        /\ report.m_key >= 0 /\ report.t_change >= 0
        /\ timedelta(report.m_key).days >= 0
        /\ timedelta(report.t_change).days >= 0

\* a report of a check whose wall-clock reading is below the previous one
C8_Witness == report # NoReport /\ lastElapsed + lastStep < 0

\* C10 (Spec): under a positive threshold, as the application sets it, a
\* warning window on screen stays on screen through every check; it leaves
\* the screen only when the user confirms it.
C10_AlertStaysUntilConfirmed ==
    [][max_seconds > 0 => \A w \in shown : w \in shown' \/ checks' = checks]_vars

\* C7 (SpecFormat): for a non-negative timedelta the result lists, largest
\* unit first, the non-zero parts of the floor decomposition of its whole
\* seconds into days, hours < 24, minutes < 60 and seconds < 60; it is the
\* zero sentinel when all four are zero, and it is never empty.
WholeSeconds(d) == d.days * DaySeconds + d.seconds

Parts(d) ==
    << <<WholeSeconds(d) \div DaySeconds, UnitDays>>,
       <<(WholeSeconds(d) \div 3600) % 24, UnitHours>>,
       <<(WholeSeconds(d) \div 60) % 60, UnitMinutes>>,
       <<WholeSeconds(d) % 60, UnitSeconds>> >>

NonZero(part) == part[1] # 0

RECURSIVE Join(_)
Join(parts) ==
    IF parts = << >> THEN ""
    ELSE FormatInt(Head(parts)[1]) \o Head(parts)[2] \o Join(Tail(parts))

Listing(d) ==
    IF SelectSeq(Parts(d), NonZero) = << >>
    THEN "0" \o UnitSeconds
    ELSE Join(SelectSeq(Parts(d), NonZero))

C7_FormatListsNonZeroUnits ==
    (result # NoResult /\ td.days >= 0) =>
        /\ result = Listing(td)
        /\ result # ""

\* 1 day, 2 hours, 3 minutes, 4 seconds renders all four parts in order
C7_Witness ==
    /\ td.days = 1 /\ td.seconds = 2 * 3600 + 3 * 60 + 4
    /\ result = "1tian2xiaoshi3fenzhong4miao"

\* C9 (SpecTimer): every timeout invokes action exactly once, and a timer
\* with repeat_millis <= 0 invokes it once in total and then stays stopped.
C9_OneActionPerExpiry ==
    /\ expiries > 0 => lastCalls = 1
    /\ calls = expiries
    /\ t_repeat <= 0 => (calls <= 1 /\ (expiries > 0 => ~t_active))

====
